---- MODULE Spec2Model ----
(***************************************************************************)
(* A model of scripts/ksy.py: the generator that turns a parsed Kaitai     *)
(* schema (enums, struct seq fields, computed instances) into C           *)
(* artifacts.  Python dicts are functions whose DOMAIN is the set of keys  *)
(* present, so `"type" not in ksy_field` is `"type" \notin DOMAIN f`, and  *)
(* an attribute left at its dataclass default None is a key that is        *)
(* absent.  Type tags are character sequences so that type[1:] can be      *)
(* taken.  Generated text is kept as the sequence of its pieces.           *)
(* A Python call either returns (Ok) or raises (Raise).                    *)
(***************************************************************************)
EXTENDS Integers, Sequences, FiniteSets, TLC

(* schema:  the parsed schema the run works on                             *)
(* obj:     the model object constructed from it                           *)
(* pc:      where the run stands; op: the last operation applied           *)
(* ret:     what that operation returned or raised                         *)
(* emitted: the artifacts generated so far for an enum                     *)
(* call:    the last call of a generated lookup function, and the one      *)
(*          before it                                                      *)
VARIABLES schema, obj, pc, op, ret, emitted, call

vars == <<schema, obj, pc, op, ret, emitted, call>>

Ok(v) == [val |-> v]
Raise(e) == [exc |-> e]
IsExc(r) == "exc" \in DOMAIN r
Nothing == [none |-> TRUE]
Has(d, k) == k \in DOMAIN d

(* ---------------------------------------------------------------------- *)
(* Bounds of the model.                                                    *)
(* ---------------------------------------------------------------------- *)
MaxLen == 2
MaxSeq == 2
MaxEnumLen == 2
MaxExprLen == 4

(* ---------------------------------------------------------------------- *)
(* The type mapping tables.                                                *)
(* ---------------------------------------------------------------------- *)
S1 == <<"s", "1">>
U1 == <<"u", "1">>
S2 == <<"s", "2">>
U2 == <<"u", "2">>
S4 == <<"s", "4">>
U4 == <<"u", "4">>
S8 == <<"s", "8">>
U8 == <<"u", "8">>
F4 == <<"f", "4">>
F8 == <<"f", "8">>
STR == <<"s", "t", "r">>

KSY2C_TYPE ==
  (S1 :> "int8_t") @@ (U1 :> "uint8_t") @@ (S2 :> "int16_t") @@
  (U2 :> "uint16_t") @@ (S4 :> "int32_t") @@ (U4 :> "uint32_t") @@
  (S8 :> "int64_t") @@ (U8 :> "uint64_t") @@ (F4 :> "float") @@
  (F8 :> "double")

KSY2C_FPRINT ==
  (S1 :> "%i") @@ (U1 :> "%u") @@ (S2 :> "%i") @@ (U2 :> "%u") @@
  (S4 :> "%i") @@ (U4 :> "%u") @@ (S8 :> "%li") @@ (U8 :> "%lu") @@
  (F4 :> "%f") @@ (F8 :> "%f")

KSY_BYTESWAPPABLE == <<S1, U1, S2, U2, S4, U4, S8, U8, F4, F8>>

Range(s) == {s[i] : i \in DOMAIN s}

(* ---------------------------------------------------------------------- *)
(* Pieces of generated text.  A printf format is a sequence of literal     *)
(* pieces and conversion specifiers; prec is the precision of '%.Ns' and   *)
(* -1 where the specifier has none.                                        *)
(* ---------------------------------------------------------------------- *)
Lit(s) == [kind |-> "lit", text |-> s, prec |-> -1]
Conv(s) == [kind |-> "conv", text |-> s, prec |-> -1]
ConvPrec(s, n) == [kind |-> "conv", text |-> s, prec |-> n]

(* sep.join(parts) for a list of n copies of one piece *)
RECURSIVE JoinCopies(_, _, _)
JoinCopies(piece, sep, n) ==
  IF n <= 0 THEN <<>>
  ELSE IF n = 1 THEN <<piece>>
  ELSE <<piece, sep>> \o JoinCopies(piece, sep, n - 1)

(* int(s) of Python for a sequence of characters: decimal digits only *)
DigitVal ==
  ("0" :> 0) @@ ("1" :> 1) @@ ("2" :> 2) @@ ("3" :> 3) @@ ("4" :> 4) @@
  ("5" :> 5) @@ ("6" :> 6) @@ ("7" :> 7) @@ ("8" :> 8) @@ ("9" :> 9)

RECURSIVE DecimalValue(_)
DecimalValue(cs) ==
  IF cs = <<>> THEN 0
  ELSE 10 * DecimalValue(SubSeq(cs, 1, Len(cs) - 1)) + DigitVal[cs[Len(cs)]]

PyInt(cs) ==
  IF cs # <<>> /\ \A i \in DOMAIN cs : cs[i] \in DOMAIN DigitVal
  THEN Ok(DecimalValue(cs))
  ELSE Raise("ValueError")

(* ---------------------------------------------------------------------- *)
(* KsyStructField                                                          *)
(* ---------------------------------------------------------------------- *)
FieldLengths_RepeatExprGuard(ksy_field, type) ==
  IF ~Has(ksy_field, "type") THEN
    IF Has(ksy_field, "size") THEN Ok("arr_len" :> ksy_field["size"])
    ELSE Raise("KeyError")
  ELSE IF type = STR THEN
    IF Has(ksy_field, "size") THEN Ok("str_len" :> ksy_field["size"])
    ELSE Raise("KeyError")
  ELSE IF Has(ksy_field, "repeat-expr")
  THEN Ok("arr_len" :> ksy_field["repeat-expr"])
  ELSE Ok(<<>>)

FieldLengths(ksy_field, type) ==
  IF ~Has(ksy_field, "type") THEN
    IF Has(ksy_field, "size") THEN Ok("arr_len" :> ksy_field["size"])
    ELSE Raise("KeyError")
  ELSE IF type = STR THEN
    IF Has(ksy_field, "size") THEN Ok("str_len" :> ksy_field["size"])
    ELSE Raise("KeyError")
  ELSE IF Has(ksy_field, "repeat") THEN
    IF Has(ksy_field, "repeat-expr")
    THEN Ok("arr_len" :> ksy_field["repeat-expr"])
    ELSE Raise("KeyError")
  ELSE Ok(<<>>)

KsyStructField(ksy_field) ==
  IF ~Has(ksy_field, "id") THEN Raise("KeyError")
  ELSE
    LET type == IF ~Has(ksy_field, "type") THEN U1 ELSE ksy_field["type"]
        lens == FieldLengths(ksy_field, type)
        enum == IF Has(ksy_field, "enum")
                THEN ("enum" :> ksy_field["enum"]) ELSE <<>>
        doc  == IF Has(ksy_field, "doc")
                THEN ("doc" :> ksy_field["doc"]) ELSE <<>>
    IN IF IsExc(lens) THEN lens
       ELSE Ok(("name" :> ksy_field["id"]) @@ ("type" :> type)
               @@ lens.val @@ enum @@ doc)

(* A C declarator: base type, member name, array dimensions. *)
cdef(self) ==
  IF self.type = STR
  THEN Ok([base |-> "char", name |-> self.name, dims |-> <<self.str_len>>])
  ELSE IF ~(self.type \in DOMAIN KSY2C_TYPE) THEN Raise("KeyError")
  ELSE IF Has(self, "arr_len")
  THEN Ok([base |-> KSY2C_TYPE[self.type], name |-> self.name,
           dims |-> <<self.arr_len>>])
  ELSE Ok([base |-> KSY2C_TYPE[self.type], name |-> self.name, dims |-> <<>>])

(* The external type: a base type name and whether it ends in ' *'. *)
ctype(self) ==
  IF self.type = STR THEN Ok([base |-> "char", ptr |-> TRUE])
  ELSE IF ~(self.type \in DOMAIN KSY2C_TYPE) THEN Raise("KeyError")
  ELSE IF Has(self, "arr_len")
  THEN Ok([base |-> KSY2C_TYPE[self.type], ptr |-> TRUE])
  ELSE Ok([base |-> KSY2C_TYPE[self.type], ptr |-> FALSE])

(* The list comprehension looks the tag up once per element, so an        *)
(* unmapped tag raises only when the array has at least one element.      *)
ctype_fprint(self) ==
  IF Has(self, "enum")
  THEN Ok(<<Conv("%s"), Lit(" ("), Conv("%i"), Lit(")")>>)
  ELSE IF self.type = STR
  THEN Ok(<<Lit("'"), ConvPrec("%.s", self.str_len), Lit("'")>>)
  ELSE IF Has(self, "arr_len") THEN
    IF self.arr_len > 0 /\ ~(self.type \in DOMAIN KSY2C_FPRINT)
    THEN Raise("KeyError")
    ELSE Ok(<<Lit("[ ")>>
            \o (IF self.arr_len > 0
                THEN JoinCopies(Conv(KSY2C_FPRINT[self.type]), Lit(", "),
                                self.arr_len)
                ELSE <<>>)
            \o <<Lit(" ]")>>)
  ELSE IF ~(self.type \in DOMAIN KSY2C_FPRINT) THEN Raise("KeyError")
  ELSE Ok(<<Conv(KSY2C_FPRINT[self.type])>>)

needs_byteswap_AnyButStr(self) == self.type # STR

needs_byteswap(self) == self.type \in Range(KSY_BYTESWAPPABLE)

nbytes(self) == PyInt(Tail(self.type))

(* ---------------------------------------------------------------------- *)
(* KsyStruct and the generators over its seq fields.  A generator walks    *)
(* iter_fields(), which constructs one KsyStructField per seq entry as it  *)
(* goes; the first exception ends the walk and the generator.              *)
(* ---------------------------------------------------------------------- *)
KsyStruct(name, ksy_struct) == [name |-> name, ksy_struct |-> ksy_struct]

(* cg.cn_enum_value is not part of ksy.py: the macro name is kept        *)
(* symbolic, one name per (enum, identifier).                             *)
cn_enum_value(name, var) == <<"value_macro", name, var>>

(* cg.cn_arg is not part of ksy.py: the argument name is kept symbolic.   *)
cn_arg(name) == <<"arg:", name>>

(* One emitted swap statement: a counted loop over [0, upto) or a plain   *)
(* assignment (upto = -1), through the primitive bswap<bits>.              *)
Stmt(kind, arg, field, upto, bits) ==
  [stmt |-> kind, arg |-> arg, field |-> field, upto |-> upto, bits |-> bits]

RECURSIVE byteswap_fields(_, _, _)
byteswap_fields(ksy_struct, i, func_body) ==
  LET seq == ksy_struct.ksy_struct["seq"] IN
  IF i > Len(seq) THEN Ok(func_body)
  ELSE
    LET made == KsyStructField(seq[i]) IN
    IF IsExc(made) THEN made
    ELSE LET field == made.val IN
      IF ~needs_byteswap(field)
      THEN byteswap_fields(ksy_struct, i + 1, func_body)
      ELSE LET n == nbytes(field) IN
        IF IsExc(n) THEN n
        ELSE IF n.val = 1
        THEN byteswap_fields(ksy_struct, i + 1, func_body)
        ELSE IF Has(field, "arr_len")
        THEN byteswap_fields(ksy_struct, i + 1,
               Append(func_body,
                      Stmt("for", cn_arg(ksy_struct.name), field.name,
                           field.arr_len, n.val * 8)))
        ELSE byteswap_fields(ksy_struct, i + 1,
               Append(func_body,
                      Stmt("assign", cn_arg(ksy_struct.name), field.name,
                           -1, n.val * 8)))

build_byteswap_struct(ksy_struct) ==
  IF ~Has(ksy_struct.ksy_struct, "seq") THEN Raise("KeyError")
  ELSE LET body == byteswap_fields(ksy_struct, 1, <<>>) IN
    IF IsExc(body) THEN body
    ELSE Ok([func |-> <<ksy_struct.name, "_swap">>, body |-> body.val])

(* The pieces of a member's documentation comment. *)
DocText(s) == [kind |-> "text", text |-> <<s>>]
EnumRef(e) == [kind |-> "enum", text |-> cn_enum_value(e, "*")]

member_doc(field) ==
  IF Has(field, "doc")
  THEN IF Has(field, "enum")
       THEN <<DocText(field.doc), EnumRef(field.enum)>>
       ELSE <<DocText(field.doc)>>
  ELSE <<>>

RECURSIVE struct_fields(_, _, _)
struct_fields(ksy_struct, i, fields) ==
  LET seq == ksy_struct.ksy_struct["seq"] IN
  IF i > Len(seq) THEN Ok(fields)
  ELSE
    LET made == KsyStructField(seq[i]) IN
    IF IsExc(made) THEN made
    ELSE LET decl == cdef(made.val) IN
      IF IsExc(decl) THEN decl
      ELSE struct_fields(ksy_struct, i + 1,
             Append(fields, [doc |-> member_doc(made.val), decl |-> decl.val]))

build_struct(ksy_struct) ==
  IF ~Has(ksy_struct.ksy_struct, "seq") THEN Raise("KeyError")
  ELSE LET fields == struct_fields(ksy_struct, 1, <<>>) IN
    IF IsExc(fields) THEN fields
    ELSE Ok([name |-> ksy_struct.name, fields |-> fields.val])

(* ---------------------------------------------------------------------- *)
(* KsyStructCompField                                                      *)
(* ---------------------------------------------------------------------- *)
KsyStructCompField(name, ksy_comp) ==
  ("name" :> name)
  @@ (IF Has(ksy_comp, "enum") THEN ("enum" :> ksy_comp["enum"]) ELSE <<>>)
  @@ (IF Has(ksy_comp, "value") THEN ("expr" :> ksy_comp["value"]) ELSE <<>>)

comp_ctype_fprint(self) ==
  IF Has(self, "enum")
  THEN <<Conv("%s"), Lit(" ("), Conv("%i"), Lit(")")>>
  ELSE <<Conv("%i")>>

(* ---------------------------------------------------------------------- *)
(* build_print_struct.  An argument of the printf is an element of an      *)
(* array member, a member, the result of an enum name lookup (with the     *)
(* enum_unknown fallback) or a call of a computed field's accessor.        *)
(* ---------------------------------------------------------------------- *)
Arg(kind, field, index) == [expr |-> kind, field |-> field, index |-> index]

Lookup(enum, field, access) == [enum |-> enum, field |-> field, of |-> access]

RECURSIVE ElemArgs(_, _, _)
ElemArgs(field, i, n) ==
  IF i >= n THEN <<>>
  ELSE <<Arg("elem", field, i)>> \o ElemArgs(field, i + 1, n)

RECURSIVE print_fields(_, _, _)
print_fields(ksy_struct, i, acc) ==
  LET seq == ksy_struct.ksy_struct["seq"] IN
  IF i > Len(seq) THEN Ok(acc)
  ELSE
    LET made == KsyStructField(seq[i]) IN
    IF IsExc(made) THEN made
    ELSE LET field == made.val
             pt_value == ctype_fprint(field)
         IN
      IF IsExc(pt_value) THEN pt_value
      ELSE IF Has(field, "arr_len")
      THEN print_fields(ksy_struct, i + 1,
             [acc EXCEPT !.table = Append(@,
                [name |-> field.name, value |-> pt_value.val,
                 args |-> ElemArgs(field.name, 0, field.arr_len)])])
      ELSE IF Has(field, "enum")
      THEN print_fields(ksy_struct, i + 1,
             [prefix |-> Append(acc.prefix,
                                Lookup(field.enum, field.name, "member")),
              table |-> Append(acc.table,
                [name |-> field.name, value |-> pt_value.val,
                 args |-> <<Arg("lookup", field.name, -1),
                            Arg("member", field.name, -1)>>])])
      ELSE print_fields(ksy_struct, i + 1,
             [acc EXCEPT !.table = Append(@,
                [name |-> field.name, value |-> pt_value.val,
                 args |-> <<Arg("member", field.name, -1)>>])])

RECURSIVE print_comp_fields(_, _, _)
print_comp_fields(ksy_struct, i, acc) ==
  LET items == ksy_struct.ksy_struct["instances"] IN
  IF i > Len(items) THEN acc
  ELSE
    LET field == KsyStructCompField(items[i].name, items[i].ksy_comp)
        pt_name == <<"*">> \o field.name
    IN IF Has(field, "enum")
       THEN print_comp_fields(ksy_struct, i + 1,
              [prefix |-> Append(acc.prefix,
                                 Lookup(field.enum, field.name, "call")),
               table |-> Append(acc.table,
                 [name |-> pt_name, value |-> comp_ctype_fprint(field),
                  args |-> <<Arg("lookup", field.name, -1),
                             Arg("call", field.name, -1)>>])])
       ELSE print_comp_fields(ksy_struct, i + 1,
              [acc EXCEPT !.table = Append(@,
                 [name |-> pt_name, value |-> comp_ctype_fprint(field),
                  args |-> <<Arg("call", field.name, -1)>>])])

SeqMax(ns) ==
  CHOOSE m \in Range(ns) : \A k \in Range(ns) : k <= m

RECURSIVE Spaces(_)
Spaces(n) == IF n <= 0 THEN <<>> ELSE <<" ">> \o Spaces(n - 1)

ljust(cs, width) == cs \o Spaces(width - Len(cs))

build_print_struct(ksy_struct) ==
  IF ~Has(ksy_struct.ksy_struct, "seq") THEN Raise("KeyError")
  ELSE LET seq_rows == print_fields(ksy_struct, 1,
                                    [prefix |-> <<>>, table |-> <<>>]) IN
    IF IsExc(seq_rows) THEN seq_rows
    ELSE IF ~Has(ksy_struct.ksy_struct, "instances") THEN Raise("KeyError")
    ELSE LET all == print_comp_fields(ksy_struct, 1, seq_rows.val) IN
      IF all.table = <<>> THEN Raise("ValueError")
      ELSE LET max_key_len ==
                 SeqMax([k \in DOMAIN all.table |-> Len(all.table[k].name)])
           IN Ok([func |-> <<ksy_struct.name, "_print">>,
                  prefix |-> all.prefix,
                  rows |-> [k \in DOMAIN all.table |->
                             [label |-> ljust(all.table[k].name, max_key_len),
                              value |-> all.table[k].value,
                              args |-> all.table[k].args]]])

(* ---------------------------------------------------------------------- *)
(* convert_struct.  A copy statement is a counted element loop over        *)
(* [0, upto), a memcpy of upto bytes or a direct assignment (upto = -1);   *)
(* cast is the type cast to ("" when no cast is inserted).                 *)
(* ---------------------------------------------------------------------- *)
Copy(kind, dest, src, upto, cast) ==
  [stmt |-> kind, dest |-> dest, src |-> src, upto |-> upto, cast |-> cast]

(* '' when the two external types are equal, else '(<dest ctype>) ',  *)
(* then with every ' *' removed: the cast names the base type only.    *)
cast_of(src_ctype, dest_ctype) ==
  IF src_ctype = dest_ctype THEN "" ELSE dest_ctype.base

copy_statement(src_field, dest_field) ==
  LET src_ctype == ctype(src_field) IN
  IF IsExc(src_ctype) THEN src_ctype
  ELSE LET dest_ctype == ctype(dest_field) IN
    IF IsExc(dest_ctype) THEN dest_ctype
    ELSE LET cast == cast_of(src_ctype.val, dest_ctype.val) IN
      IF Has(src_field, "arr_len") THEN
        IF Has(dest_field, "arr_len")
           /\ src_field.arr_len = dest_field.arr_len
        THEN Ok(Copy("for", dest_field.name, src_field.name,
                     src_field.arr_len, cast))
        ELSE Raise("AssertionError")
      ELSE IF Has(src_field, "str_len") THEN
        IF Has(dest_field, "str_len")
           /\ src_field.str_len = dest_field.str_len
        THEN Ok(Copy("memcpy", dest_field.name, src_field.name,
                     src_field.str_len, ""))
        ELSE Raise("AssertionError")
      ELSE Ok(Copy("assign", dest_field.name, src_field.name, -1, cast))

should_copy_IgnoresSkip(src_field, dest_field, skip_field_names) ==
  src_field.name = dest_field.name

should_copy(src_field, dest_field, skip_field_names) ==
  /\ src_field.name = dest_field.name
  /\ src_field.name \notin Range(skip_field_names)

RECURSIVE convert_dest_fields(_, _, _, _, _)
convert_dest_fields(src_field, struct_dest, skip_field_names, j, body) ==
  LET seq == struct_dest.ksy_struct["seq"] IN
  IF j > Len(seq) THEN Ok(body)
  ELSE
    LET made == KsyStructField(seq[j]) IN
    IF IsExc(made) THEN made
    ELSE IF should_copy(src_field, made.val, skip_field_names)
    THEN LET st == copy_statement(src_field, made.val) IN
      IF IsExc(st) THEN st
      ELSE convert_dest_fields(src_field, struct_dest, skip_field_names,
                               j + 1, Append(body, st.val))
    ELSE convert_dest_fields(src_field, struct_dest, skip_field_names,
                             j + 1, body)

RECURSIVE convert_src_fields(_, _, _, _, _)
convert_src_fields(struct_src, struct_dest, skip_field_names, i, body) ==
  LET seq == struct_src.ksy_struct["seq"] IN
  IF i > Len(seq) THEN Ok(body)
  ELSE
    LET made == KsyStructField(seq[i]) IN
    IF IsExc(made) THEN made
    ELSE IF ~Has(struct_dest.ksy_struct, "seq") THEN Raise("KeyError")
    ELSE LET inner == convert_dest_fields(made.val, struct_dest,
                                          skip_field_names, 1, body) IN
      IF IsExc(inner) THEN inner
      ELSE convert_src_fields(struct_src, struct_dest, skip_field_names,
                              i + 1, inner.val)

convert_struct(struct_src, struct_dest, body_prefix, skip_field_names) ==
  IF ~Has(struct_src.ksy_struct, "seq") THEN Raise("KeyError")
  ELSE LET body == convert_src_fields(struct_src, struct_dest,
                                      skip_field_names, 1, body_prefix) IN
    IF IsExc(body) THEN body
    ELSE Ok([func |-> <<struct_src.name, "_to_", struct_dest.name>>,
             body |-> body.val, returns |-> 1])

(* ---------------------------------------------------------------------- *)
(* KsyStructCompField.cexpr and build_comp_field_funcs.  An expression is  *)
(* a sequence of characters; the C expression is a sequence of characters  *)
(* and of the symbolic pieces of a member accessor.                        *)
(* ---------------------------------------------------------------------- *)

(* str.split(" "): cut at every single space, empty tokens kept *)
RECURSIVE split_space(_, _)
split_space(cs, tok) ==
  IF cs = <<>> THEN <<tok>>
  ELSE IF Head(cs) = " " THEN <<tok>> \o split_space(Tail(cs), <<>>)
  ELSE split_space(Tail(cs), Append(tok, Head(cs)))

(* the characters str.strip() removes *)
PyWhitespace == {" ", "\t", "\n", "\r", "\f"}

RECURSIVE lstrip(_)
lstrip(cs) ==
  IF cs # <<>> /\ Head(cs) \in PyWhitespace THEN lstrip(Tail(cs)) ELSE cs

RECURSIVE rstrip(_)
rstrip(cs) ==
  IF cs # <<>> /\ cs[Len(cs)] \in PyWhitespace
  THEN rstrip(SubSeq(cs, 1, Len(cs) - 1)) ELSE cs

strip(cs) == rstrip(lstrip(cs))

(* utils.is_int_literal and utils.int_literal are not part of ksy.py:     *)
(* decimal digits, hex digits after 0x, or one quoted character.          *)
HexVal ==
  DigitVal @@ ("a" :> 10) @@ ("b" :> 11) @@ ("c" :> 12) @@ ("d" :> 13) @@
  ("e" :> 14) @@ ("f" :> 15)

CodePoint == ("a" :> 97) @@ ("x" :> 120) @@ ("0" :> 48) @@ ("1" :> 49)

IsDecimal(tok) ==
  tok # <<>> /\ \A i \in DOMAIN tok : tok[i] \in DOMAIN DigitVal

IsHex(tok) ==
  /\ Len(tok) > 2 /\ tok[1] = "0" /\ tok[2] = "x"
  /\ \A i \in 3..Len(tok) : tok[i] \in DOMAIN HexVal

IsCharLiteral(tok) ==
  Len(tok) = 3 /\ tok[1] = "'" /\ tok[3] = "'" /\ tok[2] \in DOMAIN CodePoint

is_int_literal(tok) == IsDecimal(tok) \/ IsHex(tok) \/ IsCharLiteral(tok)

RECURSIVE HexValue(_)
HexValue(cs) ==
  IF cs = <<>> THEN 0
  ELSE 16 * HexValue(SubSeq(cs, 1, Len(cs) - 1)) + HexVal[cs[Len(cs)]]

int_literal(tok) ==
  IF IsDecimal(tok) THEN DecimalValue(tok)
  ELSE IF IsHex(tok) THEN HexValue(SubSeq(tok, 3, Len(tok)))
  ELSE CodePoint[tok[2]]

(* str(n) for n >= 0 *)
DigitChar == <<"0", "1", "2", "3", "4", "5", "6", "7", "8", "9">>

RECURSIVE PyStr(_)
PyStr(n) ==
  IF n < 10 THEN <<DigitChar[n + 1]>>
  ELSE Append(PyStr(n \div 10), DigitChar[(n % 10) + 1])

RECURSIVE field_names(_, _)
field_names(ksy_struct, i) ==
  LET seq == ksy_struct.ksy_struct["seq"] IN
  IF i > Len(seq) THEN Ok(<<>>)
  ELSE LET made == KsyStructField(seq[i]) IN
    IF IsExc(made) THEN made
    ELSE LET rest == field_names(ksy_struct, i + 1) IN
      IF IsExc(rest) THEN rest ELSE Ok(<<made.val.name>> \o rest.val)

rewrite_token(tok, names, struct_name) ==
  IF tok \in Range(names) THEN cn_arg(struct_name) \o <<"->">> \o tok
  ELSE IF is_int_literal(tok) THEN PyStr(int_literal(tok))
  ELSE tok

RECURSIVE rewrite_tokens(_, _, _, _)
rewrite_tokens(toks, i, names, struct_name) ==
  IF i > Len(toks) THEN <<>>
  ELSE rewrite_token(toks[i], names, struct_name) \o <<" ">>
       \o rewrite_tokens(toks, i + 1, names, struct_name)

cexpr(self, ksy_struct) ==
  IF ~Has(self, "expr") THEN Raise("AttributeError")
  ELSE IF ~Has(ksy_struct.ksy_struct, "seq") THEN Raise("KeyError")
  ELSE LET names == field_names(ksy_struct, 1) IN
    IF IsExc(names) THEN names
    ELSE Ok(strip(rewrite_tokens(split_space(self.expr, <<>>), 1, names.val,
                                 ksy_struct.name)))

RECURSIVE comp_field_funcs(_, _, _)
comp_field_funcs(ksy_struct, i, funcs) ==
  LET items == ksy_struct.ksy_struct["instances"] IN
  IF i > Len(items) THEN Ok(funcs)
  ELSE
    LET field == KsyStructCompField(items[i].name, items[i].ksy_comp)
        comp_expr == cexpr(field, ksy_struct)
    IN IF IsExc(comp_expr) THEN comp_expr
       ELSE comp_field_funcs(ksy_struct, i + 1,
              Append(funcs, [func |-> <<ksy_struct.name, "_">> \o field.name,
                             returns |-> comp_expr.val]))

build_comp_field_funcs(ksy_struct) ==
  IF ~Has(ksy_struct.ksy_struct, "instances") THEN Raise("KeyError")
  ELSE comp_field_funcs(ksy_struct, 1, <<>>)

(* ---------------------------------------------------------------------- *)
(* KsyEnum.  The schema's enum is a list of (value, variant) items, where  *)
(* a variant is a bare identifier or a dict with id and optional doc.      *)
(* The generated C refers to each value through its two macros; the macro  *)
(* names come from cg.cn_enum_value, which is not part of ksy.py and is    *)
(* kept symbolic.                                                          *)
(* ---------------------------------------------------------------------- *)
KsyEnumValue(name, var, value, doc) ==
  [name |-> name, var |-> var, value |-> value] @@ doc

RECURSIVE enum_values(_, _, _)
enum_values(name, items, i) ==
  IF i > Len(items) THEN Ok(<<>>)
  ELSE
    LET var_value == items[i].key
        var_name == items[i].variant
        rest == enum_values(name, items, i + 1)
    IN IF Has(var_name, "bare")
       THEN IF IsExc(rest) THEN rest
            ELSE Ok(<<KsyEnumValue(name, var_name["bare"], var_value, <<>>)>>
                    \o rest.val)
       ELSE IF ~Has(var_name, "id") THEN Raise("KeyError")
       ELSE IF IsExc(rest) THEN rest
       ELSE Ok(<<KsyEnumValue(name, var_name["id"], var_value,
                    IF Has(var_name, "doc")
                    THEN ("doc" :> var_name["doc"]) ELSE <<>>)>>
               \o rest.val)

KsyEnum(name, ksy) ==
  IF ~Has(ksy, "enums") \/ ~Has(ksy["enums"], name) THEN Raise("KeyError")
  ELSE LET values == enum_values(name, ksy["enums"][name], 1) IN
    IF IsExc(values) THEN values
    ELSE Ok([name |-> name, values |-> values.val])

cn(self) == cn_enum_value(self.name, self.var)
cn_str(self) == cn(self) \o <<"_STR">>

(* #define <macro> <body> *)
cdefine(self) == [macro |-> cn(self), int |-> self.value]
cdefine_str(self) == [macro |-> cn_str(self), str |-> self.var]

cdefine_all(self, include_str) ==
  [ints |-> [i \in DOMAIN self.values |-> cdefine(self.values[i])],
   strs |-> IF include_str
            THEN [i \in DOMAIN self.values |-> cdefine_str(self.values[i])]
            ELSE <<>>]

(* switch (value) { case <cn>: return <cn_str>; ... default: return NULL; } *)
cdynamic_name(self) ==
  [func |-> <<self.name, "_name">>,
   cases |-> [i \in DOMAIN self.values |->
                [case |-> cn(self.values[i]),
                 return |-> cn_str(self.values[i])]]]

cdynamic_from_name_FirstOnly(self) ==
  IF self.values = <<>> THEN Raise("IndexError")
  ELSE Ok([func |-> <<self.name, "_from_name">>,
           null_guard |-> -1,
           tests |-> <<[strcmp |-> cn_str(self.values[1]),
                        return |-> cn(self.values[1])]>>,
           fallthrough |-> -1])

(* if (arg == NULL) return -1;                                            *)
(* if (strcmp(arg, <first cn_str>) == 0) return <first cn>;               *)
(* else if (strcmp(arg, <cn_str>) == 0) return <cn>;    for every value   *)
(* return -1;                                                             *)
cdynamic_from_name(self) ==
  IF self.values = <<>> THEN Raise("IndexError")
  ELSE Ok([func |-> <<self.name, "_from_name">>,
           null_guard |-> -1,
           tests |-> <<[strcmp |-> cn_str(self.values[1]),
                        return |-> cn(self.values[1])]>>
                     \o [i \in DOMAIN self.values |->
                           [strcmp |-> cn_str(self.values[i]),
                            return |-> cn(self.values[i])]],
           fallthrough |-> -1])

(* ---------------------------------------------------------------------- *)
(* Running the generated lookup functions against the generated macros.    *)
(* A C string pointer is NULL or points to a string.                       *)
(* ---------------------------------------------------------------------- *)
NULL == [null |-> TRUE, str |-> ""]
Ptr(s) == [null |-> FALSE, str |-> s]

(* The preprocessor's expansion of a macro name. *)
IntMacro(defines, m) ==
  LET i == CHOOSE k \in DOMAIN defines.ints : defines.ints[k].macro = m
  IN defines.ints[i].int

StrMacro(defines, m) ==
  LET i == CHOOSE k \in DOMAIN defines.strs : defines.strs[k].macro = m
  IN defines.strs[i].str

RECURSIVE run_switch(_, _, _, _)
run_switch(fn, defines, value, i) ==
  IF i > Len(fn.cases) THEN NULL
  ELSE IF IntMacro(defines, fn.cases[i].case) = value
  THEN Ptr(StrMacro(defines, fn.cases[i].return))
  ELSE run_switch(fn, defines, value, i + 1)

RECURSIVE run_tests(_, _, _, _)
run_tests(fn, defines, arg, i) ==
  IF i > Len(fn.tests) THEN fn.fallthrough
  ELSE IF StrMacro(defines, fn.tests[i].strcmp) = arg.str
  THEN IntMacro(defines, fn.tests[i].return)
  ELSE run_tests(fn, defines, arg, i + 1)

run_name(fn, defines, value) == run_switch(fn, defines, value, 1)

run_from_name(fn, defines, arg) ==
  IF arg.null THEN fn.null_guard ELSE run_tests(fn, defines, arg, 1)

(* ---------------------------------------------------------------------- *)
(* Parsed schema inputs.                                                   *)
(* ---------------------------------------------------------------------- *)
Opt(k, S) == {<<>>} \cup {k :> v : v \in S}

B1 == <<"b", "1">>
B4 == <<"b", "4">>
UnknownTags == {B1, B4}
AllTags == Range(KSY_BYTESWAPPABLE) \cup {STR} \cup UnknownTags

RawFieldsOf(ids, tags, lens, enums, docs) ==
  {("id" :> i) @@ t @@ s @@ r @@ x @@ e @@ d :
     i \in ids, t \in Opt("type", tags), s \in Opt("size", lens),
     r \in Opt("repeat", {"expr"}), x \in Opt("repeat-expr", lens),
     e \in Opt("enum", enums), d \in Opt("doc", docs)}

RawFields(lens) == RawFieldsOf({<<"x">>}, AllTags, lens, {"E"}, {"d"})

(* ---------------------------------------------------------------------- *)
(* One field: construction, then one of its methods.                       *)
(* ---------------------------------------------------------------------- *)
InitField ==
  /\ schema \in RawFields(0..MaxLen)
  /\ obj = Nothing
  /\ pc = "start"
  /\ op = "none"
  /\ ret = Nothing
  /\ emitted = Nothing
  /\ call = Nothing

Construct ==
  /\ pc = "start"
  /\ LET r == KsyStructField(schema)
     IN /\ pc' = IF IsExc(r) THEN "raised" ELSE "constructed"
        /\ obj' = IF IsExc(r) THEN Nothing ELSE r.val
        /\ ret' = r
  /\ op' = "KsyStructField"
  /\ UNCHANGED <<schema, emitted, call>>

Method(name, r) ==
  /\ pc = "constructed"
  /\ pc' = IF IsExc(r) THEN "raised" ELSE "returned"
  /\ op' = name
  /\ ret' = r
  /\ UNCHANGED <<schema, obj, emitted, call>>

Cdef == Method("cdef", cdef(obj))
Ctype == Method("ctype", ctype(obj))
CtypeFprint == Method("ctype_fprint", ctype_fprint(obj))
NeedsByteswap == Method("needs_byteswap", Ok(needs_byteswap(obj)))
Nbytes == Method("nbytes", nbytes(obj))

NextField ==
  \/ Construct
  \/ Cdef
  \/ Ctype
  \/ CtypeFprint
  \/ NeedsByteswap
  \/ Nbytes

SpecField == InitField /\ [][NextField]_vars

(* ---------------------------------------------------------------------- *)
(* One struct: a generator over it.                                        *)
(* ---------------------------------------------------------------------- *)

(* Well-formed seq entries, id left out: a typed scalar, a typed repeated *)
(* array, a sized string, an untyped sized byte array; each with or       *)
(* without an enum reference and a doc string.                            *)
Shapes(tags, lens, enums, docs) ==
  {t @@ e @@ d :
     t \in {("type" :> g) : g \in tags \ {STR}}
           \cup {("type" :> g) @@ ("repeat" :> "expr") @@ ("repeat-expr" :> n) :
                   g \in tags \ {STR}, n \in lens}
           \cup (IF STR \in tags
                 THEN {("type" :> STR) @@ ("size" :> n) : n \in lens}
                 ELSE {})
           \cup {("size" :> n) : n \in lens},
     e \in Opt("enum", enums), d \in Opt("doc", docs)}

FieldIds == <<"a", "b", "c", "d">>
IdAt(i) == <<FieldIds[i]>>

(* a seq whose i-th entry has the i-th shape and is named by the i-th id *)
PositionalSeq(sh) == [i \in DOMAIN sh |-> ("id" :> IdAt(i)) @@ sh[i]]

StructName == "hdr"

InitStruct(struct) ==
  /\ schema = struct
  /\ obj = KsyStruct(StructName, schema)
  /\ pc = "start"
  /\ op = "none"
  /\ ret = Nothing
  /\ emitted = Nothing
  /\ call = Nothing

Generator(name, r) ==
  /\ pc = "start"
  /\ pc' = IF IsExc(r) THEN "raised" ELSE "returned"
  /\ op' = name
  /\ ret' = r
  /\ UNCHANGED <<schema, obj, emitted, call>>

BuildByteswapStruct ==
  Generator("build_byteswap_struct", build_byteswap_struct(obj))
BuildStruct == Generator("build_struct", build_struct(obj))
BuildPrintStruct == Generator("build_print_struct", build_print_struct(obj))
BuildCompFieldFuncs ==
  Generator("build_comp_field_funcs", build_comp_field_funcs(obj))

InitSwap ==
  \E n \in 0..MaxSeq :
    \E sh \in [1..n -> Shapes(AllTags, 1..MaxLen, {}, {})] :
      InitStruct("seq" :> PositionalSeq(sh))
NextSwap == BuildByteswapStruct
SpecSwap == InitSwap /\ [][NextSwap]_vars

GenTags == {U1, S4, STR, B4}
Instances ==
  {<<>>} \cup
  {<<[name |-> <<"v">>, ksy_comp |-> ("value" :> <<"a">>) @@ e]>> :
     e \in Opt("enum", {"E"})}

InitGen ==
  \E n \in 0..MaxSeq :
    \E sh \in [1..n -> Shapes(GenTags, 0..MaxLen, {"E"}, {"d"})] :
      \E i \in Opt("instances", Instances) :
        InitStruct(("seq" :> PositionalSeq(sh)) @@ i)
NextGen ==
  \/ BuildStruct
  \/ BuildPrintStruct
  \/ BuildByteswapStruct
  \/ BuildCompFieldFuncs
SpecGen == InitGen /\ [][NextGen]_vars

(* ---------------------------------------------------------------------- *)
(* Two structs: convert_struct.  Within one seq the ids are distinct.      *)
(* ---------------------------------------------------------------------- *)
ConvertIds == {<<"a">>, <<"b">>}
ConvertShapes(lens) ==
  (Shapes({U1, U4, STR}, lens, {}, {}) \ {("size" :> n) : n \in lens})
  \cup {("type" :> B4)}

NamedSeqs(ids, shapes, max) ==
  UNION {{f \in [1..n -> {("id" :> i) @@ sh : i \in ids, sh \in shapes}] :
            \A j, k \in 1..n : j # k => f[j]["id"] # f[k]["id"]} :
           n \in 0..max}

ConvertStructs(lens, max) ==
  {("seq" :> s) : s \in NamedSeqs(ConvertIds, ConvertShapes(lens), max)}
SkipLists == {<<>>, <<<<"b">>>>}
BodyPrefix == <<Copy("prefix", <<>>, <<>>, -1, "")>>

InitConvert ==
  /\ schema \in [src : ConvertStructs(1..MaxLen, MaxSeq),
                 dest : ConvertStructs(1..MaxLen, MaxSeq),
                 skip_field_names : SkipLists]
  /\ obj = [src |-> KsyStruct("n1", schema.src),
            dest |-> KsyStruct("n2", schema.dest)]
  /\ pc = "start"
  /\ op = "none"
  /\ ret = Nothing
  /\ emitted = Nothing
  /\ call = Nothing

ConvertStruct ==
  /\ pc = "start"
  /\ LET r == convert_struct(obj.src, obj.dest, BodyPrefix,
                             schema.skip_field_names)
     IN /\ pc' = IF IsExc(r) THEN "raised" ELSE "returned"
        /\ ret' = r
  /\ op' = "convert_struct"
  /\ UNCHANGED <<schema, obj, emitted, call>>

NextConvert == ConvertStruct
SpecConvert == InitConvert /\ [][NextConvert]_vars

(* ---------------------------------------------------------------------- *)
(* One computed field of a struct: cexpr and build_comp_field_funcs.       *)
(* ---------------------------------------------------------------------- *)
ExprChars == {"a", "0", "1", "x", " ", "\t"}
Exprs(max) == UNION {[1..n -> ExprChars] : n \in 0..max}

ExprSeqs ==
  {<<("id" :> <<"a">>) @@ ("type" :> U4)>>,
   <<("id" :> <<"a">>) @@ ("type" :> U4), ("id" :> <<"x">>) @@ ("type" :> S2)>>}

ExprStructs(max) ==
  {("seq" :> s) @@ ("instances" :> <<[name |-> <<"v">>, ksy_comp |-> c]>>) :
     s \in ExprSeqs, c \in Opt("value", Exprs(max))}

InitExpr == \E s \in ExprStructs(MaxExprLen) : InitStruct(s)

Cexpr ==
  /\ pc = "start"
  /\ LET item == schema["instances"][1]
         r == cexpr(KsyStructCompField(item.name, item.ksy_comp), obj)
     IN /\ pc' = IF IsExc(r) THEN "raised" ELSE "returned"
        /\ ret' = r
  /\ op' = "cexpr"
  /\ UNCHANGED <<schema, obj, emitted, call>>

NextExpr ==
  \/ Cexpr
  \/ BuildCompFieldFuncs
SpecExpr == InitExpr /\ [][NextExpr]_vars

(* ---------------------------------------------------------------------- *)
(* One enum: its artifacts are generated in turn, then the generated       *)
(* lookup functions are called.  The keys of the schema's mapping are      *)
(* distinct, and so are the identifiers of one enum.                       *)
(* ---------------------------------------------------------------------- *)
EnumName == "Color"
EnumKeys == {0, 1, 2}
EnumIds == {"RED", "GREEN", "BLUE"}
Variants ==
  {("bare" :> i) : i \in EnumIds}
  \cup {("id" :> i) @@ ("doc" :> "d") : i \in EnumIds}
VariantId(v) == IF Has(v, "bare") THEN v["bare"] ELSE v["id"]

EnumItems(max) ==
  UNION {{f \in [1..n -> [key : EnumKeys, variant : Variants]] :
            \A j, k \in 1..n :
              j # k => /\ f[j].key # f[k].key
                       /\ VariantId(f[j].variant) # VariantId(f[k].variant)} :
           n \in 0..max}

InitEnum ==
  /\ schema \in {("enums" :> (EnumName :> items)) : items \in EnumItems(MaxEnumLen)}
  /\ obj = KsyEnum(EnumName, schema).val
  /\ pc = "start"
  /\ op = "none"
  /\ ret = Nothing
  /\ emitted = Nothing
  /\ call = Nothing

CDefineAll ==
  /\ pc = "start"
  /\ pc' = "defined"
  /\ op' = "cdefine_all"
  /\ ret' = Ok(cdefine_all(obj, TRUE))
  /\ emitted' = [defines |-> cdefine_all(obj, TRUE)]
  /\ UNCHANGED <<schema, obj, call>>

CDynamicName ==
  /\ pc = "defined"
  /\ pc' = "named"
  /\ op' = "cdynamic_name"
  /\ ret' = Ok(cdynamic_name(obj))
  /\ emitted' = emitted @@ [name |-> cdynamic_name(obj)]
  /\ UNCHANGED <<schema, obj, call>>

CDynamicFromName ==
  /\ pc = "named"
  /\ LET r == cdynamic_from_name(obj)
     IN /\ pc' = IF IsExc(r) THEN "raised" ELSE "generated"
        /\ ret' = r
        /\ emitted' = IF IsExc(r) THEN emitted
                      ELSE emitted @@ [from_name |-> r.val]
  /\ op' = "cdynamic_from_name"
  /\ UNCHANGED <<schema, obj, call>>

(* the arguments the generated functions are called with *)
CallValues == EnumKeys \cup {9}
CallStrings == {NULL} \cup {Ptr(s) : s \in EnumIds \cup {"PURPLE"}}

Last(c) == IF Has(c, "fn") THEN [fn |-> c.fn, in |-> c.in, out |-> c.out]
           ELSE Nothing

CallName ==
  /\ pc = "generated"
  /\ \E value \in CallValues \cup
                  (IF Has(call, "fn") /\ call.fn = "from_name"
                   THEN {call.out} ELSE {}) :
       call' = [fn |-> "name", in |-> value,
                out |-> run_name(emitted.name, emitted.defines, value),
                prev |-> Last(call)]
  /\ UNCHANGED <<schema, obj, pc, op, ret, emitted>>

CallFromName ==
  /\ pc = "generated"
  /\ \E arg \in CallStrings :
       call' = [fn |-> "from_name", in |-> arg,
                out |-> run_from_name(emitted.from_name, emitted.defines, arg),
                prev |-> Last(call)]
  /\ UNCHANGED <<schema, obj, pc, op, ret, emitted>>

NextEnum ==
  \/ CDefineAll
  \/ CDynamicName
  \/ CDynamicFromName
  \/ CallName
  \/ CallFromName
SpecEnum == InitEnum /\ [][NextEnum]_vars

(* ---------------------------------------------------------------------- *)
(* Claims about one field.                                                 *)
(* ---------------------------------------------------------------------- *)
TenNumericTags == {S1, U1, S2, U2, S4, U4, S8, U8, F4, F8}

(* C4: for a field with array_length = k, the fragment ctype_fprint        *)
(* returns is the scalar specifier of the field's type repeated exactly k  *)
(* times, comma-joined inside brackets.                                    *)
C4_ArrayFragmentHasKSpecifiers ==
  (op = "ctype_fprint" /\ pc = "returned" /\ Has(obj, "arr_len")
     /\ obj.type \in TenNumericTags)
  => /\ Len(SelectSeq(ret.val, LAMBDA p : p.kind = "conv")) = obj.arr_len
     /\ \A i \in DOMAIN ret.val :
          ret.val[i].kind = "conv"
          => ret.val[i] = Conv(KSY2C_FPRINT[obj.type])
     /\ ret.val[1] = Lit("[ ")
     /\ ret.val[Len(ret.val)] = Lit(" ]")

ByteWidth ==
  (S1 :> 1) @@ (U1 :> 1) @@ (S2 :> 2) @@ (U2 :> 2) @@ (S4 :> 4) @@
  (U4 :> 4) @@ (S8 :> 8) @@ (U8 :> 8) @@ (F4 :> 4) @@ (F8 :> 8)

SwapEligible(entry) ==
  /\ Has(entry, "type")
  /\ entry["type"] \in TenNumericTags
  /\ ByteWidth[entry["type"]] > 1

ExpectedSwap(entry) ==
  IF Has(entry, "repeat")
  THEN Stmt("for", cn_arg(StructName), entry["id"], entry["repeat-expr"],
            ByteWidth[entry["type"]] * 8)
  ELSE Stmt("assign", cn_arg(StructName), entry["id"], -1,
            ByteWidth[entry["type"]] * 8)

RECURSIVE ExpectedSwaps(_)
ExpectedSwaps(entries) ==
  IF entries = <<>> THEN <<>>
  ELSE (IF SwapEligible(Head(entries))
        THEN <<ExpectedSwap(Head(entries))>> ELSE <<>>)
       \o ExpectedSwaps(Tail(entries))

(* C2: build_byteswap_struct emits a swap for a seq field iff its type is  *)
(* one of the ten numeric tags and its width exceeds 1 byte: one counted   *)
(* loop over [0, array_length) with bswap(width*8) for an array, one       *)
(* in-place assignment with bswap(width*8) for a scalar; nothing for a     *)
(* string, an untyped or a 1-byte field; statements in seq order.          *)
C2_SwapsExactlyEligibleFields ==
  (op = "build_byteswap_struct") =>
    /\ pc = "returned"
    /\ ret.val.body = ExpectedSwaps(schema["seq"])

C2_Witness ==
  /\ op = "build_byteswap_struct"
  /\ pc = "returned"
  /\ Len(schema["seq"]) = 2
  /\ ret.val.body = <<Stmt("for", cn_arg(StructName), <<"a">>, 2, 32),
                      Stmt("assign", cn_arg(StructName), <<"b">>, -1, 64)>>

HasUnknownTag(entries) ==
  \E i \in DOMAIN entries :
    Has(entries[i], "type")
    /\ entries[i]["type"] \notin TenNumericTags \cup {STR}

(* C5: a seq field whose type tag is neither one of the ten numeric tags   *)
(* nor the string tag makes every generator over its struct end in an      *)
(* error: none returns an artifact.                                        *)
C5_UnknownTagNeverReturns ==
  (op \in {"build_struct", "build_print_struct", "build_byteswap_struct"}
     /\ HasUnknownTag(schema["seq"]))
  => pc = "raised"

NumConv(fragment) == Len(SelectSeq(fragment, LAMBDA p : p.kind = "conv"))

(* C8: in every row of build_print_struct's table the number of            *)
(* conversion specifiers of the format fragment equals the number of       *)
(* arguments.                                                              *)
C8_SpecifiersMatchArguments ==
  (op = "build_print_struct" /\ pc = "returned") =>
    \A k \in DOMAIN ret.val.rows :
      NumConv(ret.val.rows[k].value) = Len(ret.val.rows[k].args)

(* C10: build_struct emits one member per seq field, in seq order, and a   *)
(* member's documentation comment carries the enum cross-reference         *)
(* whenever the field carries an enum reference, with or without a doc     *)
(* string of its own.                                                      *)
C10_MembersInOrderWithEnumRef ==
  (op = "build_struct" /\ pc = "returned") =>
    /\ Len(ret.val.fields) = Len(schema["seq"])
    /\ \A i \in DOMAIN schema["seq"] :
         /\ ret.val.fields[i].decl.name = schema["seq"][i]["id"]
         /\ Has(schema["seq"][i], "enum")
              => EnumRef(schema["seq"][i]["enum"])
                   \in Range(ret.val.fields[i].doc)

(* ---------------------------------------------------------------------- *)
(* Claims about convert_struct.                                            *)
(* ---------------------------------------------------------------------- *)
SeqNames(ksy) == {ksy["seq"][i]["id"] : i \in DOMAIN ksy["seq"]}
EntryNamed(ksy, n) ==
  ksy["seq"][CHOOSE i \in DOMAIN ksy["seq"] : ksy["seq"][i]["id"] = n]

EntryKind(e) ==
  IF ~Has(e, "type") THEN "array"
  ELSE IF e["type"] = STR THEN "string"
  ELSE IF Has(e, "repeat") THEN "array"
  ELSE "scalar"

EntryLength(e) ==
  IF ~Has(e, "type") \/ e["type"] = STR THEN e["size"]
  ELSE IF Has(e, "repeat") THEN e["repeat-expr"]
  ELSE -1

Copied ==
  (SeqNames(schema.src) \cap SeqNames(schema.dest))
  \ Range(schema.skip_field_names)

CopiesFor(body, n) ==
  Cardinality({k \in DOMAIN body : body[k].stmt # "prefix" /\ body[k].dest = n})

ExactlyOneCopyPerSharedName ==
  \A n \in ConvertIds \cup {<<"c">>} :
    CopiesFor(ret.val.body, n) = IF n \in Copied THEN 1 ELSE 0

Unmapped(e) == Has(e, "type") /\ e["type"] \notin TenNumericTags \cup {STR}

Mismatch(s, d) ==
  \/ Unmapped(s) \/ Unmapped(d)
  \/ /\ EntryKind(s) \in {"array", "string"}
     /\ (EntryKind(d) # EntryKind(s) \/ EntryLength(d) # EntryLength(s))

(* C3 as amended: for structs of well-formed seq entries whose ids are    *)
(* distinct, convert_struct                                                *)
(* raises, and returns nothing, exactly when some same-named, non-skipped  *)
(* pair has an unmapped type tag, or a source array (string) whose         *)
(* destination is not an array (string) of the same length; otherwise it   *)
(* returns with exactly one copy statement for every field name that is    *)
(* in both seqs and not in the skip list, and none for any other name.     *)
C3_OneCopyPerSharedNameOrRaise ==
  (op = "convert_struct") =>
    IF \E n \in Copied :
         Mismatch(EntryNamed(schema.src, n), EntryNamed(schema.dest, n))
    THEN pc = "raised"
    ELSE pc = "returned" /\ ExactlyOneCopyPerSharedName

C3_Witness ==
  /\ op = "convert_struct"
  /\ pc = "returned"
  /\ SeqNames(schema.src) = ConvertIds
  /\ SeqNames(schema.dest) = ConvertIds
  /\ schema.skip_field_names = <<<<"b">>>>
  /\ Len(ret.val.body) = 2
  /\ ret.val.body[2].stmt = "for"
  /\ ret.val.body[2].dest = <<"a">>

(* C3 as first stated: for any A, B and S, convert_struct emits exactly    *)
(* one copy statement for every field name in both seqs and not in S, and  *)
(* none for any other name (stated here for fields of recognized type    *)
(* tags only).                                                             *)
C3_Original ==
  (op = "convert_struct"
     /\ ~HasUnknownTag(schema.src["seq"]) /\ ~HasUnknownTag(schema.dest["seq"]))
  => (pc = "returned" /\ ExactlyOneCopyPerSharedName)

(* C7: every copy statement convert_struct emits matches the kind of both  *)
(* fields: a counted loop only for two arrays of equal length, a memcpy    *)
(* only for two strings of equal length, a direct assignment only for two  *)
(* scalars.                                                                *)
C7_CopyFormMatchesBothKinds ==
  (op = "convert_struct" /\ pc = "returned") =>
    \A k \in DOMAIN ret.val.body :
      LET st == ret.val.body[k] IN
      st.stmt # "prefix" =>
        LET s == EntryNamed(schema.src, st.src)
            d == EntryNamed(schema.dest, st.dest)
        IN /\ st.stmt = "for"
                => /\ EntryKind(s) = "array" /\ EntryKind(d) = "array"
                   /\ EntryLength(s) = EntryLength(d)
           /\ st.stmt = "memcpy"
                => /\ EntryKind(s) = "string" /\ EntryKind(d) = "string"
                   /\ EntryLength(s) = EntryLength(d)
           /\ st.stmt = "assign"
                => (EntryKind(s) = "scalar" /\ EntryKind(d) = "scalar")

(* ---------------------------------------------------------------------- *)
(* Claims about cexpr.                                                     *)
(* ---------------------------------------------------------------------- *)

(* the non-empty tokens of cs delimited by whitespace of any kind *)
RECURSIVE WhitespaceTokens(_, _)
WhitespaceTokens(cs, tok) ==
  IF cs = <<>> THEN (IF tok = <<>> THEN <<>> ELSE <<tok>>)
  ELSE IF Head(cs) \in PyWhitespace
  THEN (IF tok = <<>> THEN <<>> ELSE <<tok>>)
       \o WhitespaceTokens(Tail(cs), <<>>)
  ELSE WhitespaceTokens(Tail(cs), Append(tok, Head(cs)))

RECURSIVE JoinSingleSpace(_)
JoinSingleSpace(parts) ==
  IF parts = <<>> THEN <<>>
  ELSE IF Len(parts) = 1 THEN parts[1]
  ELSE parts[1] \o <<" ">> \o JoinSingleSpace(Tail(parts))

(* C9: cexpr returns the non-empty whitespace-delimited tokens of the      *)
(* expression, each rewritten by precedence (field name, integer literal,  *)
(* unchanged), separated by exactly one space, with no leading or          *)
(* trailing space.                                                         *)
C9_TokensRejoinedWithSingleSpaces ==
  (op = "cexpr" /\ pc = "returned") =>
    LET toks == WhitespaceTokens(schema["instances"][1].ksy_comp["value"], <<>>)
        names == [i \in DOMAIN schema["seq"] |-> schema["seq"][i]["id"]]
    IN ret.val = JoinSingleSpace([i \in DOMAIN toks |->
                                    rewrite_token(toks[i], names, StructName)])

(* ---------------------------------------------------------------------- *)
(* Claims about the generated enum lookups.                                *)
(* ---------------------------------------------------------------------- *)
DeclaredPairs ==
  LET items == schema["enums"][EnumName]
  IN {<<items[i].key, VariantId(items[i].variant)>> : i \in DOMAIN items}

DeclaredValue(v) == \E p \in DeclaredPairs : p[1] = v
DeclaredId(a) == ~a.null /\ \E p \in DeclaredPairs : p[2] = a.str

(* C1: over the declared (value, identifier) pairs of an enum the          *)
(* generated name() and from_name() are mutual inverses; name() returns    *)
(* NULL for an undeclared value; from_name() returns -1 for NULL and for   *)
(* a string that is no declared identifier.                                *)
C1_LookupsAreMutualInverses ==
  Has(call, "fn") =>
    /\ (call.fn = "name" /\ DeclaredValue(call.in))
         => (~call.out.null /\ <<call.in, call.out.str>> \in DeclaredPairs)
    /\ (call.fn = "name" /\ ~DeclaredValue(call.in)) => call.out = NULL
    /\ (call.fn = "from_name" /\ DeclaredId(call.in))
         => <<call.out, call.in.str>> \in DeclaredPairs
    /\ (call.fn = "from_name" /\ ~DeclaredId(call.in)) => call.out = -1
    /\ (call.fn = "from_name" /\ Has(call.prev, "fn") /\ call.prev.fn = "name"
          /\ DeclaredValue(call.prev.in) /\ call.in = call.prev.out)
         => call.out = call.prev.in
    /\ (call.fn = "name" /\ Has(call.prev, "fn") /\ call.prev.fn = "from_name"
          /\ DeclaredId(call.prev.in) /\ call.in = call.prev.out)
         => call.out = call.prev.in

C1_Witness ==
  /\ Has(call, "fn") /\ call.fn = "from_name"
  /\ Has(call.prev, "fn") /\ call.prev.fn = "name"
  /\ Cardinality(DeclaredPairs) = 2
  /\ <<1, "GREEN">> \in DeclaredPairs
  /\ <<0, "RED">> \in DeclaredPairs
  /\ call.prev.in = 1
  /\ call.in = call.prev.out
  /\ call.in = Ptr("GREEN")
  /\ call.out = 1

====
